---- MODULE Spec2Model ----
(***************************************************************************)
(* Model of the zcash-web-wallet transaction scanner                       *)
(* (src/cli/src/scanner.rs) and wallet derivation (src/core/src/wallet.rs).*)
(*                                                                         *)
(* Every function of the two files is a pure function; each is modelled as *)
(* an operator computed the way the code computes it, and one action per   *)
(* public function applies it to inputs drawn from bounded sets and        *)
(* records the outcome.  Rust's Option is a sequence of length 0 (None) or *)
(* 1 (Some), Result is a record with an `ok` field.  Byte strings are      *)
(* sequences of 0..255, text is a sequence of one-character strings.       *)
(***************************************************************************)
EXTENDS Integers, Sequences, FiniteSets, TLC

VARIABLES
    txHex,      \* the hex string last handed to parse_transaction
    parsed,     \* outcome of parse_transaction (with the tags it tried)
    tx,         \* the decoded transaction handed to scan_transaction
    scan,       \* inputs and outcome of the last scan_transaction call
    weak,       \* the (network, seed) pairs the key library cannot derive from
    generated,  \* inputs and outcome of the last generate_wallet call
    restored    \* inputs and outcome of the last restore_wallet call

vars == <<txHex, parsed, tx, scan, weak, generated, restored>>

(***************************************************************************)
(* Bounds of the model.                                                    *)
(***************************************************************************)
\* most entries (transparent outputs + spends + outputs + actions) of a transaction
MaxTxItems == 2
\* entropy digits of a generated mnemonic (32 bytes in the code)
EntropyLen == 1
\* most tokens (words and runs of whitespace) of a phrase handed to restore_wallet
MaxPhraseTokens == 5
\* length of a memo field, in bytes (512 in the protocol)
MemoLen == 3

None == <<>>
Some(x) == <<x>>
IsSome(o) == Len(o) = 1
Unwrap(o) == o[1]

Networks == {"MainNetwork", "TestNetwork"}
\* _height: Option<u32>
Heights == {None, Some(2000000)}

(***************************************************************************)
(* hex::encode                                                             *)
(***************************************************************************)
HexDigits ==
    <<"0", "1", "2", "3", "4", "5", "6", "7", "8", "9", "a", "b", "c", "d", "e", "f">>

HexByte(b) == <<HexDigits[(b \div 16) + 1], HexDigits[(b % 16) + 1]>>

RECURSIVE HexEncode(_)
HexEncode(bytes) ==
    IF bytes = <<>> THEN <<>>
    ELSE HexByte(Head(bytes)) \o HexEncode(Tail(bytes))

(***************************************************************************)
(* The decoded transaction (zcash_primitives Transaction), as far as the   *)
(* scanner reads it.                                                       *)
(*   vout    : transparent outputs, each its value in zatoshis             *)
(*   spends  : Sapling spends, each its nullifier bytes                    *)
(*   outputs : Sapling outputs, each its note commitment (cmu) bytes       *)
(*   actions : Orchard actions: nullifier bytes, commitment (cmx) bytes    *)
(*             and the note the action's ciphertext encrypts: the incoming *)
(*             viewing key it is encrypted to, its value and memo          *)
(***************************************************************************)
ZatValues == {0, 2}
NullifierBytes == {<<26>>, <<171>>}
CommitmentBytes == {<<7>>, <<240>>}
OrchardKeys == {1, 2}

\* FullViewingKey::to_ivk(scope)
ToIvk(fvk, scope) == [fvk |-> fvk, scope |-> scope]

\* the on-chain part of an action and the note its ciphertext encrypts
ActionPublic == {[nf |-> <<26>>, cmx |-> <<240>>], [nf |-> <<171>>, cmx |-> <<7>>]}
ActionNotes ==
    {[to |-> ToIvk(1, "External"), value |-> 5, memo |-> <<72, 105, 0>>],
     [to |-> ToIvk(1, "External"), value |-> 0, memo |-> <<0, 0, 0>>],
     [to |-> ToIvk(2, "External"), value |-> 9, memo |-> <<72, 105, 0>>]}

Actions ==
    {[nf |-> p.nf, cmx |-> p.cmx, to |-> n.to, value |-> n.value, memo |-> n.memo] :
        p \in ActionPublic, n \in ActionNotes}

TxShapes ==
    {n \in [1..4 -> 0..MaxTxItems] : n[1] + n[2] + n[3] + n[4] <= MaxTxItems}

Transactions ==
    UNION {[vout : [1..n[1] -> ZatValues],
            spends : [1..n[2] -> NullifierBytes],
            outputs : [1..n[3] -> CommitmentBytes],
            actions : [1..n[4] -> Actions]] : n \in TxShapes}

\* memo bytes: zero, ASCII "H", the two bytes of a two-byte UTF-8 sequence,
\* and a byte that no UTF-8 text holds
MemoByteValues == {0, 72, 195, 169, 255}
MemoInputs == [1..MemoLen -> MemoByteValues]

\* the transactions of one Orchard action whose note, of any memo, is
\* encrypted to the first full viewing key
MemoTransactions ==
    {[vout |-> <<>>, spends |-> <<>>, outputs |-> <<>>,
      actions |-> <<[nf |-> <<26>>, cmx |-> <<240>>, to |-> ToIvk(1, "External"),
                     value |-> 5, memo |-> m]>>] : m \in MemoInputs}

\* Transaction::txid(): a digest of the transaction's content
Txid(t) == <<"txid", t>>

\* Transaction::transparent_bundle(), sapling_bundle(), orchard_bundle():
\* a bundle is present when the transaction holds an entry of that pool
TransparentBundle(t) == IF t.vout = <<>> THEN None ELSE Some([vout |-> t.vout])

SaplingBundle(t) ==
    IF t.spends = <<>> /\ t.outputs = <<>> THEN None
    ELSE Some([shielded_spends |-> t.spends, shielded_outputs |-> t.outputs])

OrchardBundle(t) == IF t.actions = <<>> THEN None ELSE Some([actions |-> t.actions])

(***************************************************************************)
(* extract_nullifiers                                                      *)
(***************************************************************************)
SaplingNullifiers(t) ==
    IF IsSome(SaplingBundle(t))
    THEN LET spends == Unwrap(SaplingBundle(t)).shielded_spends
         IN  [i \in 1..Len(spends) |->
                 [pool |-> "sapling", nullifier |-> HexEncode(spends[i])]]
    ELSE <<>>

OrchardNullifiers(t) ==
    IF IsSome(OrchardBundle(t))
    THEN LET actions == Unwrap(OrchardBundle(t)).actions
         IN  [i \in 1..Len(actions) |->
                 [pool |-> "orchard", nullifier |-> HexEncode(actions[i].nf)]]
    ELSE <<>>

\* extract_nullifiers, the pools in the other order
ExtractNullifiersSwapped(t) == OrchardNullifiers(t) \o SaplingNullifiers(t)

ExtractNullifiers(t) == SaplingNullifiers(t) \o OrchardNullifiers(t)

(***************************************************************************)
(* Viewing-key strings.  A string is its human-readable prefix `hrp`, the  *)
(* separator "1" and an encoded payload; wellFormed says whether the       *)
(* payload is a valid Bech32m encoding of a unified container, whose typed *)
(* items are `types` (the Orchard item carrying the key bytes `orchard`,   *)
(* 0 when they encode no Orchard key or there is no Orchard item).         *)
(***************************************************************************)
UfvkHrps ==
    {<<"u", "v", "i", "e", "w">>, <<"u", "v", "i", "e", "w", "t", "e", "s", "t">>}

UivkHrps == {<<"u", "i", "v", "k">>, <<"u", "i", "v", "k", "t", "e", "s", "t">>}

LegacyHrps ==
    {<<"z", "x", "v", "i", "e", "w", "s">>,
     <<"z", "x", "v", "i", "e", "w", "t", "e", "s", "t", "s", "a", "p", "l", "i", "n", "g">>}

OtherHrps == {<<"z", "s">>, <<"z", "x", "v", "i", "e">>}

Typecodes == {"p2pkh", "sapling", "orchard", "unknown"}

\* a unified container holds at least one item that is not transparent
ContainerTypes == {T \in SUBSET Typecodes : T \ {"p2pkh"} # {}}

\* bytes of an Orchard item: 0 encodes no key, 1 is the key OrchardKeys names 1
OrchardItemBytes(T) == IF "orchard" \in T THEN {0, 1} ELSE {0}

ViewingKeys ==
    UNION {{[hrp |-> h, wellFormed |-> TRUE, types |-> T, orchard |-> o] :
               h \in UfvkHrps \cup UivkHrps, o \in OrchardItemBytes(T)} :
           T \in ContainerTypes}
    \cup
    {[hrp |-> h, wellFormed |-> FALSE, types |-> {}, orchard |-> 0] :
        h \in UfvkHrps \cup UivkHrps \cup LegacyHrps \cup OtherHrps}

KeyText(k) == k.hrp \o <<"1">>

\* str::starts_with
StartsWith(text, prefix) ==
    /\ Len(text) >= Len(prefix)
    /\ SubSeq(text, 1, Len(prefix)) = prefix

HrpNetwork(hrp) ==
    IF hrp \in {<<"u", "v", "i", "e", "w">>, <<"u", "i", "v", "k">>}
    THEN "MainNetwork" ELSE "TestNetwork"

\* Container::items(): the typed items in order of preference
ItemOrder == <<"orchard", "sapling", "p2pkh", "unknown">>

Items(k) ==
    LET keep(seq) == SelectSeq(seq, LAMBDA t : t \in k.types)
    IN  [i \in 1..Len(keep(ItemOrder)) |->
            [typecode |-> keep(ItemOrder)[i],
             data |-> IF keep(ItemOrder)[i] = "orchard" THEN k.orchard ELSE 0]]

\* unified::Ufvk::decode and unified::Uivk::decode
UfvkDecode(k) ==
    IF k.hrp \in UfvkHrps /\ k.wellFormed
    THEN Some([network |-> HrpNetwork(k.hrp), items |-> Items(k)])
    ELSE None

UivkDecode(k) ==
    IF k.hrp \in UivkHrps /\ k.wellFormed
    THEN Some([network |-> HrpNetwork(k.hrp), items |-> Items(k)])
    ELSE None

\* orchard::keys::FullViewingKey::from_bytes
OrchardFvkFromBytes(bytes) == IF bytes \in OrchardKeys THEN Some(bytes) ELSE None

(***************************************************************************)
(* parse_viewing_key_capabilities                                          *)
(***************************************************************************)
Capabilities(items) ==
    [has_sapling |-> \E i \in 1..Len(items) : items[i].typecode = "sapling",
     has_orchard |-> \E i \in 1..Len(items) : items[i].typecode = "orchard",
     has_transparent |-> \E i \in 1..Len(items) : items[i].typecode = "p2pkh"]

Ok(v) == [ok |-> TRUE, value |-> v]
Err(e) == [ok |-> FALSE, error |-> e]

\* parse_viewing_key_capabilities, a legacy key granting every pool and an
\* unrecognized string granting none instead of failing
ParseViewingKeyCapabilitiesLenient(viewing_key) ==
    IF IsSome(UfvkDecode(viewing_key))
    THEN Ok(Capabilities(Unwrap(UfvkDecode(viewing_key)).items))
    ELSE IF IsSome(UivkDecode(viewing_key))
    THEN Ok(Capabilities(Unwrap(UivkDecode(viewing_key)).items))
    ELSE IF StartsWith(KeyText(viewing_key), <<"z", "x", "v", "i", "e", "w">>)
    THEN Ok([has_sapling |-> TRUE, has_orchard |-> TRUE, has_transparent |-> TRUE])
    ELSE Ok([has_sapling |-> FALSE, has_orchard |-> FALSE, has_transparent |-> FALSE])

ParseViewingKeyCapabilities(viewing_key) ==
    IF IsSome(UfvkDecode(viewing_key))
    THEN Ok(Capabilities(Unwrap(UfvkDecode(viewing_key)).items))
    ELSE IF IsSome(UivkDecode(viewing_key))
    THEN Ok(Capabilities(Unwrap(UivkDecode(viewing_key)).items))
    ELSE IF \/ StartsWith(KeyText(viewing_key), <<"z", "x", "v", "i", "e", "w">>)
            \/ StartsWith(KeyText(viewing_key), <<"z", "x", "v", "i", "e", "w", "s">>)
    THEN Ok([has_sapling |-> TRUE, has_orchard |-> FALSE, has_transparent |-> FALSE])
    ELSE Err("Unrecognized viewing key format")

(***************************************************************************)
(* extract_orchard_fvk                                                     *)
(***************************************************************************)
ExtractOrchardFvk(viewing_key) ==
    IF IsSome(UfvkDecode(viewing_key))
    THEN LET items == Unwrap(UfvkDecode(viewing_key)).items
             found == {i \in 1..Len(items) :
                          /\ items[i].typecode = "orchard"
                          /\ IsSome(OrchardFvkFromBytes(items[i].data))}
         IN  IF found = {} THEN Ok(None)
             ELSE Ok(OrchardFvkFromBytes(
                        items[CHOOSE i \in found : \A j \in found : i <= j].data))
    ELSE Ok(None)

(***************************************************************************)
(* Trial decryption and what it recovers (orchard, zcash_note_encryption)  *)
(***************************************************************************)
\* try_note_decryption(&domain, ivk, action): the note, its recipient and memo
TryNoteDecryption(ivk, action) ==
    IF action.to = ivk
    THEN Some([note |-> [value |-> action.value, rho |-> action.nf, cm |-> action.cmx],
               recipient |-> [ivk |-> ivk],
               memo |-> action.memo])
    ELSE None

\* Note::nullifier(fvk): derived from the key and the note, 32 bytes
NoteNullifier(note, fvk) == <<(2 * note.rho[1] + note.cm[1] + fvk) % 256>>

\* format!("{:?}", recipient_addr)
DebugFormat(addr) == <<"Address", addr>>

RECURSIVE Reverse(_)
Reverse(s) == IF s = <<>> THEN <<>> ELSE Reverse(Tail(s)) \o <<Head(s)>>

RECURSIVE SkipWhileZero(_)
SkipWhileZero(s) ==
    IF s # <<>> /\ Head(s) = 0 THEN SkipWhileZero(Tail(s)) ELSE s

\* String::from_utf8(bytes).ok(): one-byte characters and two-byte sequences
RECURSIVE Utf8Valid(_)
Utf8Valid(bytes) ==
    IF bytes = <<>> THEN TRUE
    ELSE IF Head(bytes) < 128 THEN Utf8Valid(Tail(bytes))
    ELSE IF /\ Head(bytes) \in 194..223
            /\ Len(bytes) >= 2
            /\ bytes[2] \in 128..191
    THEN Utf8Valid(Tail(Tail(bytes)))
    ELSE FALSE

StringFromUtf8(bytes) == IF Utf8Valid(bytes) THEN Some(bytes) ELSE None

\* ExtractMemo, trimming the zero bytes at both ends
ExtractMemoTrimBothEnds(memo_bytes) ==
    LET memo_trimmed == Reverse(SkipWhileZero(Reverse(SkipWhileZero(memo_bytes))))
    IN  IF memo_trimmed # <<>> THEN StringFromUtf8(memo_trimmed) ELSE None

\* scanner.rs 188-200
ExtractMemo(memo_bytes) ==
    LET memo_trimmed == Reverse(SkipWhileZero(Reverse(memo_bytes)))
    IN  IF memo_trimmed # <<>> THEN StringFromUtf8(memo_trimmed) ELSE None

(***************************************************************************)
(* scan_transaction                                                        *)
(***************************************************************************)
RECURSIVE SumValues(_)
SumValues(values) ==
    IF values = <<>> THEN 0 ELSE Head(values) + SumValues(Tail(values))

\* ScanTransparent, the total holding the first output's value only
ScanTransparentFirstOnly(t, has_transparent) ==
    IF has_transparent /\ IsSome(TransparentBundle(t))
    THEN LET vout == Unwrap(TransparentBundle(t)).vout
         IN  [transparent_received |-> vout[1],
              transparent_outputs |->
                  [i \in 1..Len(vout) |->
                      [index |-> i - 1, value |-> vout[i], address |-> None]]]
    ELSE [transparent_received |-> 0, transparent_outputs |-> <<>>]

\* scanner.rs 131-142
ScanTransparent(t, has_transparent) ==
    IF has_transparent /\ IsSome(TransparentBundle(t))
    THEN LET vout == Unwrap(TransparentBundle(t)).vout
         IN  [transparent_received |-> SumValues(vout),
              transparent_outputs |->
                  [i \in 1..Len(vout) |->
                      [index |-> i - 1, value |-> vout[i], address |-> None]]]
    ELSE [transparent_received |-> 0, transparent_outputs |-> <<>>]

\* ScanSapling without the capability guard
ScanSaplingUnguarded(t, has_sapling) ==
    IF IsSome(SaplingBundle(t))
    THEN LET outputs == Unwrap(SaplingBundle(t)).shielded_outputs
         IN  [i \in 1..Len(outputs) |->
                 [output_index |-> i - 1,
                  pool |-> "sapling",
                  value |-> 0,
                  commitment |-> HexEncode(outputs[i]),
                  nullifier |-> None,
                  memo |-> None,
                  address |-> None]]
    ELSE <<>>

\* scanner.rs 144-160
ScanSapling(t, has_sapling) ==
    IF has_sapling /\ IsSome(SaplingBundle(t))
    THEN LET outputs == Unwrap(SaplingBundle(t)).shielded_outputs
         IN  [i \in 1..Len(outputs) |->
                 [output_index |-> i - 1,
                  pool |-> "sapling",
                  value |-> 0,
                  commitment |-> HexEncode(outputs[i]),
                  nullifier |-> None,
                  memo |-> None,
                  address |-> None]]
    ELSE <<>>

\* ScanAction, computing the nullifier only for a note of non-zero value
ScanActionNullifierIfValue(i, action, prepared_ivk, orchard_fvk) ==
    LET dec == IF IsSome(prepared_ivk)
               THEN TryNoteDecryption(Unwrap(prepared_ivk), action)
               ELSE None
    IN  [output_index |-> i,
         pool |-> "orchard",
         value |-> IF IsSome(dec) THEN Unwrap(dec).note.value ELSE 0,
         commitment |-> HexEncode(action.cmx),
         nullifier |->
             IF IsSome(dec) /\ IsSome(orchard_fvk) /\ Unwrap(dec).note.value # 0
             THEN Some(HexEncode(NoteNullifier(Unwrap(dec).note, Unwrap(orchard_fvk))))
             ELSE None,
         memo |-> IF IsSome(dec) THEN ExtractMemo(Unwrap(dec).memo) ELSE None,
         address |-> IF IsSome(dec) THEN Some(DebugFormat(Unwrap(dec).recipient))
                     ELSE None]

\* scanner.rs 169-222, one iteration of the loop
ScanAction(i, action, prepared_ivk, orchard_fvk) ==
    LET dec == IF IsSome(prepared_ivk)
               THEN TryNoteDecryption(Unwrap(prepared_ivk), action)
               ELSE None
    IN  [output_index |-> i,
         pool |-> "orchard",
         value |-> IF IsSome(dec) THEN Unwrap(dec).note.value ELSE 0,
         commitment |-> HexEncode(action.cmx),
         nullifier |->
             IF IsSome(dec) /\ IsSome(orchard_fvk)
             THEN Some(HexEncode(NoteNullifier(Unwrap(dec).note, Unwrap(orchard_fvk))))
             ELSE None,
         memo |-> IF IsSome(dec) THEN ExtractMemo(Unwrap(dec).memo) ELSE None,
         address |-> IF IsSome(dec) THEN Some(DebugFormat(Unwrap(dec).recipient))
                     ELSE None]

\* ScanOrchard, pushing a note only for an action that decrypts
ScanOrchardDecryptedOnly(t, has_orchard, orchard_fvk) ==
    IF has_orchard /\ IsSome(OrchardBundle(t))
    THEN LET prepared_ivk ==
                 IF IsSome(orchard_fvk)
                 THEN Some(ToIvk(Unwrap(orchard_fvk), "External"))
                 ELSE None
             actions == Unwrap(OrchardBundle(t)).actions
             notes == [i \in 1..Len(actions) |->
                          ScanAction(i - 1, actions[i], prepared_ivk, orchard_fvk)]
         IN  SelectSeq(notes, LAMBDA n : IsSome(n.address))
    ELSE <<>>

\* scanner.rs 162-223
ScanOrchard(t, has_orchard, orchard_fvk) ==
    IF has_orchard /\ IsSome(OrchardBundle(t))
    THEN LET prepared_ivk ==
                 IF IsSome(orchard_fvk)
                 THEN Some(ToIvk(Unwrap(orchard_fvk), "External"))
                 ELSE None
             actions == Unwrap(OrchardBundle(t)).actions
         IN  [i \in 1..Len(actions) |->
                 ScanAction(i - 1, actions[i], prepared_ivk, orchard_fvk)]
    ELSE <<>>

\* scan_transaction, the Orchard notes pushed before the Sapling notes
ScanTransactionOrchardFirst(t, viewing_key, network, height) ==
    LET caps == ParseViewingKeyCapabilities(viewing_key)
        fvk == ExtractOrchardFvk(viewing_key)
    IN  IF ~caps.ok THEN Err(caps.error)
        ELSE IF ~fvk.ok THEN Err(fvk.error)
        ELSE LET transparent == ScanTransparent(t, caps.value.has_transparent)
             IN  Ok([txid |-> Txid(t),
                     notes |-> ScanOrchard(t, caps.value.has_orchard, fvk.value)
                               \o ScanSapling(t, caps.value.has_sapling),
                     spent_nullifiers |-> ExtractNullifiers(t),
                     transparent_received |-> transparent.transparent_received,
                     transparent_outputs |-> transparent.transparent_outputs])

\* ScanTransaction, refusing a unified key decoded for another network
ScanTransactionNetworkChecked(t, viewing_key, network, height) ==
    LET caps == ParseViewingKeyCapabilities(viewing_key)
        fvk == ExtractOrchardFvk(viewing_key)
        decoded == IF IsSome(UfvkDecode(viewing_key)) THEN UfvkDecode(viewing_key)
                   ELSE UivkDecode(viewing_key)
    IN  IF ~caps.ok THEN Err(caps.error)
        ELSE IF IsSome(decoded) /\ Unwrap(decoded).network # network
        THEN Err("Viewing key network mismatch")
        ELSE IF ~fvk.ok THEN Err(fvk.error)
        ELSE LET transparent == ScanTransparent(t, caps.value.has_transparent)
             IN  Ok([txid |-> Txid(t),
                     notes |-> ScanSapling(t, caps.value.has_sapling)
                               \o ScanOrchard(t, caps.value.has_orchard, fvk.value),
                     spent_nullifiers |-> ExtractNullifiers(t),
                     transparent_received |-> transparent.transparent_received,
                     transparent_outputs |-> transparent.transparent_outputs])

ScanTransaction(t, viewing_key, network, height) ==
    LET caps == ParseViewingKeyCapabilities(viewing_key)
        fvk == ExtractOrchardFvk(viewing_key)
    IN  IF ~caps.ok THEN Err(caps.error)
        ELSE IF ~fvk.ok THEN Err(fvk.error)
        ELSE LET transparent == ScanTransparent(t, caps.value.has_transparent)
             IN  Ok([txid |-> Txid(t),
                     notes |-> ScanSapling(t, caps.value.has_sapling)
                               \o ScanOrchard(t, caps.value.has_orchard, fvk.value),
                     spent_nullifiers |-> ExtractNullifiers(t),
                     transparent_received |-> transparent.transparent_received,
                     transparent_outputs |-> transparent.transparent_outputs])

(***************************************************************************)
(* parse_transaction                                                       *)
(*                                                                         *)
(* A hex string is `hex` ("valid", or why hex::decode rejects it) and the  *)
(* bytes it encodes: the transaction `body` they serialize and the set     *)
(* `readable` of branch ids under which Transaction::read accepts them.    *)
(***************************************************************************)
BranchIds == {"Nu6", "Nu5", "Canopy", "Heartwood"}

TxItems(t) == Len(t.vout) + Len(t.spends) + Len(t.outputs) + Len(t.actions)

EmptyTx == [vout |-> <<>>, spends |-> <<>>, outputs |-> <<>>, actions |-> <<>>]

TxHexInputs ==
    {[hex |-> e, readable |-> {}, body |-> EmptyTx] :
        e \in {"OddLength", "InvalidHexCharacter"}}
    \cup
    {[hex |-> "valid", readable |-> R, body |-> b] :
        R \in SUBSET BranchIds, b \in {t \in Transactions : TxItems(t) <= 1}}

\* hex::decode
HexDecode(tx_hex) ==
    IF tx_hex.hex = "valid"
    THEN Ok([readable |-> tx_hex.readable, body |-> tx_hex.body])
    ELSE Err(tx_hex.hex)

\* Transaction::read(&tx_bytes[..], branch_id)
TransactionRead(tx_bytes, branch_id) ==
    IF branch_id \in tx_bytes.readable THEN Ok(tx_bytes.body) ELSE Err("io error")

\* the tags oldest first
branch_idsOldestFirst == <<"Heartwood", "Canopy", "Nu5", "Nu6">>

\* scanner.rs 55-60
branch_ids == <<"Nu6", "Nu5", "Canopy", "Heartwood">>

\* scanner.rs 62-68: the loop, `tried` recording the tags it has tried
RECURSIVE TryBranchIds(_, _, _)
TryBranchIds(tx_bytes, remaining, tried) ==
    IF remaining = <<>>
    THEN [ok |-> FALSE,
          error |-> "Failed to parse transaction with any known branch ID",
          tried |-> tried]
    ELSE IF TransactionRead(tx_bytes, Head(remaining)).ok
    THEN [ok |-> TRUE,
          value |-> TransactionRead(tx_bytes, Head(remaining)).value,
          branch |-> Head(remaining),
          tried |-> Append(tried, Head(remaining))]
    ELSE TryBranchIds(tx_bytes, Tail(remaining), Append(tried, Head(remaining)))

ParseTransaction(tx_hex, network) ==
    IF ~HexDecode(tx_hex).ok
    THEN [ok |-> FALSE, error |-> "Invalid transaction hex", tried |-> <<>>]
    ELSE TryBranchIds(HexDecode(tx_hex).value, branch_ids, <<>>)

(***************************************************************************)
(* Mnemonic codec (bip39).  Entropy is a sequence of digits, one per word; *)
(* a mnemonic is the entropy's words followed by one checksum word.  A     *)
(* phrase is a sequence of tokens, " " standing for a run of whitespace.   *)
(***************************************************************************)
WordList == <<"abandon", "zoo">>

Digits == 0..(Len(WordList) - 1)

Entropies == [1..EntropyLen -> Digits]

\* the word counts Mnemonic accepts (12 to 24 words in the code)
ValidWordCounts == {n + 1 : n \in 1..EntropyLen}

RECURSIVE DigitSum(_)
DigitSum(e) == IF e = <<>> THEN 0 ELSE Len(e) * (Head(e) + 1) + DigitSum(Tail(e))

\* the checksum digit: a digest of the entropy
Checksum(e) == (DigitSum(e) + 1) % Len(WordList)

\* Mnemonic::from_entropy_in(Language::English, entropy)
MnemonicFromEntropy(entropy) ==
    IF Len(entropy) + 1 \in ValidWordCounts
    THEN Ok([words |-> Append(entropy, Checksum(entropy))])
    ELSE Err("BadEntropyBitCount")

RECURSIVE JoinWords(_)
JoinWords(indices) ==
    IF indices = <<>> THEN <<>>
    ELSE IF Len(indices) = 1 THEN <<WordList[indices[1] + 1]>>
    ELSE <<WordList[indices[1] + 1], " ">> \o JoinWords(Tail(indices))

\* Mnemonic::to_string() without the spaces between the words
MnemonicToStringUnspaced(mnemonic) ==
    [i \in 1..Len(mnemonic.words) |-> WordList[mnemonic.words[i] + 1]]

\* Mnemonic::to_string(): the words joined by single spaces
MnemonicToString(mnemonic) == JoinWords(mnemonic.words)

\* Mnemonic::to_seed(passphrase): a digest of the normalized phrase
MnemonicToSeed(mnemonic, passphrase) ==
    <<"seed", MnemonicToString(mnemonic), passphrase>>

\* str::trim
RECURSIVE TrimStart(_)
TrimStart(s) == IF s # <<>> /\ Head(s) = " " THEN TrimStart(Tail(s)) ELSE s

Trim(s) == Reverse(TrimStart(Reverse(TrimStart(s))))

\* str::split_whitespace: the maximal runs of tokens that are not whitespace
RECURSIVE SplitWhitespace(_, _)
SplitWhitespace(s, word) ==
    IF s = <<>> THEN (IF word = <<>> THEN <<>> ELSE <<word>>)
    ELSE IF Head(s) = " "
    THEN (IF word = <<>> THEN <<>> ELSE <<word>>) \o SplitWhitespace(Tail(s), <<>>)
    ELSE SplitWhitespace(Tail(s), Append(word, Head(s)))

\* Language::find_word
FindWord(word) ==
    IF Len(word) = 1 /\ \E i \in 1..Len(WordList) : WordList[i] = word[1]
    THEN Some((CHOOSE i \in 1..Len(WordList) : WordList[i] = word[1]) - 1)
    ELSE None

\* the mnemonic checks, except that the checksum word is not compared
ParseInNormalizedNoChecksum(s) ==
    LET words == SplitWhitespace(s, <<>>)
    IN  IF Len(words) \notin ValidWordCounts THEN Err("BadWordCount")
        ELSE IF \E i \in 1..Len(words) : ~IsSome(FindWord(words[i]))
        THEN Err("UnknownWord")
        ELSE Ok([words |-> [i \in 1..Len(words) |-> Unwrap(FindWord(words[i]))]])

\* Mnemonic::parse_in_normalized(Language::English, s)
ParseInNormalized(s) ==
    LET words == SplitWhitespace(s, <<>>)
    IN  IF Len(words) \notin ValidWordCounts THEN Err("BadWordCount")
        ELSE IF \E i \in 1..Len(words) : ~IsSome(FindWord(words[i]))
        THEN Err("UnknownWord")
        ELSE LET indices == [i \in 1..Len(words) |-> Unwrap(FindWord(words[i]))]
             IN  IF indices[Len(indices)]
                        # Checksum(SubSeq(indices, 1, Len(indices) - 1))
                 THEN Err("InvalidChecksum")
                 ELSE Ok([words |-> indices])

(***************************************************************************)
(* Key derivation and encoding (zcash_keys, zcash_transparent, zip32).     *)
(* `weak` names the one (stage, network, seed) at which the library fails. *)
(***************************************************************************)
Fails(stage, network, seed) ==
    weak.stage = stage /\ weak.network = network /\ weak.seed = seed

\* UnifiedSpendingKey::from_seed(&network, seed, account)
UskFromSeed(network, seed, account) ==
    IF Fails("usk", network, seed) THEN Err("derivation error")
    ELSE Ok([network |-> network, seed |-> seed, account |-> account])

\* UnifiedSpendingKey::to_unified_full_viewing_key
ToUnifiedFullViewingKey(usk) == [fvk_of |-> usk]

\* UnifiedFullViewingKey::encode(&network)
EncodeUfvk(ufvk, network) ==
    [hrp |-> IF network = "MainNetwork" THEN "uview" ELSE "uviewtest", data |-> ufvk]

\* UnifiedFullViewingKey::default_address(AllAvailableKeys)
DefaultAddress(ufvk) ==
    IF Fails("address", ufvk.fvk_of.network, ufvk.fvk_of.seed)
    THEN Err("address generation error")
    ELSE Ok([receivers_of |-> ufvk])

\* UnifiedAddress::encode(&network)
EncodeUnifiedAddress(ua, network) ==
    [hrp |-> IF network = "MainNetwork" THEN "u" ELSE "utest", data |-> ua]

\* UnifiedFullViewingKey::transparent()
Transparent(ufvk) == Some([tfvk_of |-> ufvk])

\* AccountPubKey::derive_external_ivk
DeriveExternalIvk(tfvk) ==
    IF Fails("transparent", tfvk.tfvk_of.fvk_of.network, tfvk.tfvk_of.fvk_of.seed)
    THEN Err("hardened derivation error")
    ELSE Ok([external_ivk_of |-> tfvk])

\* ivk.default_address().0.encode(&network)
EncodeTransparentAddress(ivk, network) ==
    [prefix |-> IF network = "MainNetwork" THEN "t1" ELSE "tm", data |-> ivk]

(***************************************************************************)
(* wallet.rs                                                               *)
(***************************************************************************)
network_name(network) == IF network = "MainNetwork" THEN "mainnet" ELSE "testnet"

WalletError(kind, message) == [ok |-> FALSE, error |-> [kind |-> kind, message |-> message]]

\* derive_wallet; derive_calls counts the runs of derive_wallet behind an outcome
derive_wallet(seed, seed_phrase, network) ==
    LET usk == UskFromSeed(network, seed, 0)
        ufvk == ToUnifiedFullViewingKey(usk.value)
        ua == DefaultAddress(ufvk)
        tfvk == Transparent(ufvk)
    IN  IF ~usk.ok THEN WalletError("SpendingKeyDerivation", usk.error)
        ELSE IF ~ua.ok THEN WalletError("AddressGeneration", ua.error)
        ELSE Ok([seed_phrase |-> seed_phrase,
                 network |-> network_name(network),
                 unified_address |-> EncodeUnifiedAddress(ua.value, network),
                 transparent_address |->
                     IF IsSome(tfvk) /\ DeriveExternalIvk(Unwrap(tfvk)).ok
                     THEN Some(EncodeTransparentAddress(
                                   DeriveExternalIvk(Unwrap(tfvk)).value, network))
                     ELSE None,
                 unified_full_viewing_key |-> EncodeUfvk(ufvk, network)])

generate_wallet(entropy, network) ==
    LET mnemonic == MnemonicFromEntropy(entropy)
    IN  IF ~mnemonic.ok
        THEN [outcome |-> WalletError("MnemonicGeneration", mnemonic.error),
              derive_calls |-> 0]
        ELSE [outcome |-> derive_wallet(MnemonicToSeed(mnemonic.value, <<>>),
                                        MnemonicToString(mnemonic.value), network),
              derive_calls |-> 1]

restore_wallet(seed_phrase, network) ==
    LET mnemonic == ParseInNormalized(Trim(seed_phrase))
    IN  IF ~mnemonic.ok
        THEN [outcome |-> WalletError("InvalidSeedPhrase", mnemonic.error),
              derive_calls |-> 0]
        ELSE [outcome |-> derive_wallet(MnemonicToSeed(mnemonic.value, <<>>),
                                        MnemonicToString(mnemonic.value), network),
              derive_calls |-> 1]

(***************************************************************************)
(* The calls.  Each function is stateless, so a behaviour is one run of    *)
(* the calls on inputs drawn from the bounded sets above.                  *)
(***************************************************************************)
NotCalled == [called |-> FALSE]

NoTxHex == [hex |-> "none", readable |-> {}, body |-> EmptyTx]

ZeroSeed ==
    MnemonicToSeed(MnemonicFromEntropy([i \in 1..EntropyLen |-> 0]).value, <<>>)

NoWeak == [stage |-> "none", network |-> "MainNetwork", seed |-> ZeroSeed]

WeakChoices ==
    {[stage |-> s, network |-> "MainNetwork", seed |-> ZeroSeed] :
        s \in {"none", "usk", "address", "transparent"}}

Tokens == {" ", "invalid"} \cup {WordList[i] : i \in 1..Len(WordList)}

Phrases == UNION {[1..n -> Tokens] : n \in 0..MaxPhraseTokens}

\* parse_transaction(tx_hex, network)
ParseTransactionCall ==
    /\ ~parsed.called
    /\ \E tx_hex \in TxHexInputs, network \in Networks :
          /\ txHex' = tx_hex
          /\ parsed' = [called |-> TRUE, outcome |-> ParseTransaction(tx_hex, network)]
    /\ UNCHANGED <<tx, scan, weak, generated, restored>>

\* scan_transaction(&tx, viewing_key, network, height)
ScanTransactionCall ==
    /\ ~scan.called
    /\ \E viewing_key \in ViewingKeys, network \in Networks, height \in Heights :
          scan' = [called |-> TRUE,
                   viewing_key |-> viewing_key,
                   network |-> network,
                   height |-> height,
                   outcome |-> ScanTransaction(tx, viewing_key, network, height)]
    /\ UNCHANGED <<txHex, parsed, tx, weak, generated, restored>>

\* generate_wallet(&entropy, network)
GenerateWalletCall ==
    /\ ~generated.called
    /\ ~restored.called
    /\ \E entropy \in Entropies, network \in Networks :
          generated' = [called |-> TRUE,
                        entropy |-> entropy,
                        network |-> network,
                        outcome |-> generate_wallet(entropy, network).outcome,
                        derive_calls |-> generate_wallet(entropy, network).derive_calls]
    /\ UNCHANGED <<txHex, parsed, tx, scan, weak, restored>>

\* restore_wallet(seed_phrase, network)
RestoreWalletCall ==
    /\ ~restored.called
    /\ \E seed_phrase \in Phrases, network \in Networks :
          restored' = [called |-> TRUE,
                       seed_phrase |-> seed_phrase,
                       network |-> network,
                       outcome |-> restore_wallet(seed_phrase, network).outcome,
                       derive_calls |-> restore_wallet(seed_phrase, network).derive_calls]
    /\ UNCHANGED <<txHex, parsed, tx, scan, weak, generated>>

Idle ==
    /\ txHex = NoTxHex
    /\ parsed = NotCalled
    /\ scan = NotCalled
    /\ generated = NotCalled
    /\ restored = NotCalled

\* the transaction decoder on its own
InitParse == Idle /\ tx = EmptyTx /\ weak = NoWeak
NextParse == ParseTransactionCall
SpecParse == InitParse /\ [][NextParse]_vars

\* the scanner, on every decoded transaction of the bounds
InitScan == Idle /\ tx \in Transactions /\ weak = NoWeak
NextScan == ScanTransactionCall
SpecScan == InitScan /\ [][NextScan]_vars

\* the scanner, on one decryptable note of every memo of the bounds
InitMemo == Idle /\ tx \in MemoTransactions /\ weak = NoWeak
NextMemo == ScanTransactionCall
SpecMemo == InitMemo /\ [][NextMemo]_vars

\* the wallet functions
InitWallet == Idle /\ tx = EmptyTx /\ weak \in WeakChoices
NextWallet == GenerateWalletCall \/ RestoreWalletCall
SpecWallet == InitWallet /\ [][NextWallet]_vars

(***************************************************************************)
(* Helpers of the properties                                               *)
(***************************************************************************)
ScanOk == scan.called /\ scan.outcome.ok

Result == scan.outcome.value

RECURSIVE TotalOf(_)
TotalOf(outs) ==
    IF outs = <<>> THEN 0 ELSE outs[Len(outs)].value + TotalOf(SubSeq(outs, 1, Len(outs) - 1))

NotesOf(pool) == SelectSeq(Result.notes, LAMBDA n : n.pool = pool)

IsUfvk(k) == k.wellFormed /\ k.hrp \in UfvkHrps
IsUivk(k) == k.wellFormed /\ k.hrp \in UivkHrps
IsLegacy(k) == ~IsUfvk(k) /\ ~IsUivk(k) /\ k.hrp \in LegacyHrps

\* the pools a key string grants, read off the string's structure
Grants(k, typecode) ==
    \/ (IsUfvk(k) \/ IsUivk(k)) /\ typecode \in k.types
    \/ IsLegacy(k) /\ typecode = "sapling"

\* C1: whenever scan_transaction returns a ScanResult, transparent_received is
\* the sum of the values of transparent_outputs (0 when there are none).
C1_TransparentSum ==
    ScanOk =>
        /\ Result.transparent_received = TotalOf(Result.transparent_outputs)
        /\ (Result.transparent_outputs = <<>> => Result.transparent_received = 0)

C1_Witness ==
    /\ ScanOk
    /\ Len(Result.transparent_outputs) = 2
    /\ Result.transparent_outputs[1].value > 0
    /\ Result.transparent_outputs[2].value > 0
    /\ Result.transparent_received = 4

\* the Orchard notes (by position) that carry a nullifier, a non-zero value
WithNullifier ==
    {i \in 1..Len(NotesOf("orchard")) : IsSome(NotesOf("orchard")[i].nullifier)}

WithValue == {i \in 1..Len(NotesOf("orchard")) : NotesOf("orchard")[i].value # 0}

FullKeyWithOrchard == IsUfvk(scan.viewing_key) /\ "orchard" \in scan.viewing_key.types

\* the actions (by position) whose note is encrypted to the key's external
\* incoming viewing key, that is, whose trial decryption succeeds
Decryptable ==
    {i \in 1..Len(tx.actions) :
        /\ scan.viewing_key.orchard \in OrchardKeys
        /\ tx.actions[i].to = ToIvk(scan.viewing_key.orchard, "External")}

\* C2 as stated: with a full viewing key that grants Orchard, a transaction with
\* N actions yields exactly N "orchard" notes, and the notes with a nullifier
\* are exactly the notes with a non-zero value.
C2_NullifierIffNonZero ==
    (ScanOk /\ FullKeyWithOrchard) =>
        /\ Len(NotesOf("orchard")) = Len(tx.actions)
        /\ WithNullifier = WithValue

\* C2 amended: exactly N "orchard" notes; the notes with a nullifier are exactly
\* the notes whose trial decryption succeeded, which include every note with
\* a non-zero value (and a decrypted note of value 0 as well).
C2_NullifierIffDecrypted ==
    (ScanOk /\ FullKeyWithOrchard) =>
        /\ Len(NotesOf("orchard")) = Len(tx.actions)
        /\ WithNullifier = Decryptable
        /\ WithValue \subseteq WithNullifier
        /\ \A i \in Decryptable : NotesOf("orchard")[i].value = tx.actions[i].value

C2_Witness ==
    /\ ScanOk
    /\ FullKeyWithOrchard
    /\ Len(tx.actions) = 2
    /\ Len(NotesOf("orchard")) = 2
    /\ WithNullifier = {1, 2}
    /\ WithValue = {2}

\* C3: the spent_nullifiers of a ScanResult are a function of the transaction
\* alone, whatever the viewing key: one "sapling" entry per Sapling spend, then
\* one "orchard" entry per Orchard action, each with the hex of the on-chain
\* nullifier; this is what extract_nullifiers returns.
C3_NullifiersIndependentOfKey ==
    ScanOk =>
        /\ Result.spent_nullifiers =
              [i \in 1..Len(tx.spends) |->
                  [pool |-> "sapling", nullifier |-> HexEncode(tx.spends[i])]]
              \o [i \in 1..Len(tx.actions) |->
                  [pool |-> "orchard", nullifier |-> HexEncode(tx.actions[i].nf)]]
        /\ Result.spent_nullifiers = ExtractNullifiers(tx)

C3_Witness ==
    /\ ScanOk
    /\ IsLegacy(scan.viewing_key)
    /\ Len(tx.spends) = 1
    /\ Len(tx.actions) = 1
    /\ Result.spent_nullifiers =
          <<[pool |-> "sapling", nullifier |-> <<"a", "b">>],
            [pool |-> "orchard", nullifier |-> <<"1", "a">>]>>

\* C4: with a unified incoming viewing key that holds an Orchard key, every
\* action whose note is encrypted to that key yields a note carrying the
\* note's value and no nullifier.
C4_IncomingKeyDecrypts ==
    (ScanOk /\ IsUivk(scan.viewing_key) /\ "orchard" \in scan.viewing_key.types) =>
        \A i \in Decryptable :
            /\ NotesOf("orchard")[i].value = tx.actions[i].value
            /\ NotesOf("orchard")[i].nullifier = None

\* the protocol-version tags, newest first
NewestFirst == <<"Nu6", "Nu5", "Canopy", "Heartwood">>

\* the position in NewestFirst of the first tag the bytes of txHex read under
FirstReadable ==
    CHOOSE i \in 1..Len(NewestFirst) :
        /\ NewestFirst[i] \in txHex.readable
        /\ \A j \in 1..(i - 1) : NewestFirst[j] \notin txHex.readable

\* C5: parse_transaction fails with the hex error, trying no tag, on a string
\* that is not hex; otherwise it tries the tags newest first and returns the
\* transaction read under the first tag that reads it, trying none after it;
\* it fails with the unknown-version error exactly when no tag reads it.
C5_ParseOrder ==
    parsed.called =>
        /\ txHex.hex # "valid" =>
              /\ ~parsed.outcome.ok
              /\ parsed.outcome.error = "Invalid transaction hex"
              /\ parsed.outcome.tried = <<>>
        /\ (txHex.hex = "valid" /\ txHex.readable # {}) =>
              /\ parsed.outcome.ok
              /\ parsed.outcome.branch = NewestFirst[FirstReadable]
              /\ parsed.outcome.value = txHex.body
              /\ parsed.outcome.tried = SubSeq(NewestFirst, 1, FirstReadable)
        /\ (txHex.hex = "valid" /\ txHex.readable = {}) =>
              /\ ~parsed.outcome.ok
              /\ parsed.outcome.error =
                    "Failed to parse transaction with any known branch ID"
              /\ parsed.outcome.tried = NewestFirst
        /\ (~parsed.outcome.ok
              /\ parsed.outcome.error =
                    "Failed to parse transaction with any known branch ID")
           => (txHex.hex = "valid" /\ txHex.readable = {})

C5_Witness ==
    /\ parsed.called
    /\ txHex.hex = "valid"
    /\ txHex.readable = {"Nu5", "Heartwood"}
    /\ parsed.outcome.ok
    /\ parsed.outcome.branch = "Nu5"
    /\ parsed.outcome.tried = <<"Nu6", "Nu5">>

\* C6: a string that decodes as a unified container (full or incoming) gets
\* exactly the capability bits of the sapling, orchard and p2pkh items it
\* holds, other items being ignored; a legacy-prefixed string gets Sapling
\* alone; any other string makes scan_transaction fail with the
\* unrecognized-format error and return no ScanResult.
C6_KeyResolution ==
    scan.called =>
        LET k == scan.viewing_key
            caps == ParseViewingKeyCapabilities(k)
        IN  /\ (IsUfvk(k) \/ IsUivk(k)) =>
                  /\ caps.ok
                  /\ caps.value.has_sapling = ("sapling" \in k.types)
                  /\ caps.value.has_orchard = ("orchard" \in k.types)
                  /\ caps.value.has_transparent = ("p2pkh" \in k.types)
                  /\ scan.outcome.ok
            /\ IsLegacy(k) =>
                  /\ caps = Ok([has_sapling |-> TRUE, has_orchard |-> FALSE,
                                has_transparent |-> FALSE])
                  /\ scan.outcome.ok
            /\ (~IsUfvk(k) /\ ~IsUivk(k) /\ ~IsLegacy(k)) =>
                  /\ ~caps.ok
                  /\ scan.outcome = Err("Unrecognized viewing key format")
                  /\ DOMAIN scan.outcome = {"ok", "error"}

C6_Witness ==
    /\ scan.called
    /\ scan.viewing_key.hrp = <<"u", "v", "i", "e", "w">>
    /\ ~scan.viewing_key.wellFormed
    /\ TxItems(tx) = 2
    /\ ~scan.outcome.ok

\* C7: in every ScanResult the "sapling" notes precede the "orchard" notes,
\* and the k-th note of a pool has output_index k-1 and is the note of the
\* k-th Sapling output (Orchard action) of the transaction.
C7_NoteOrder ==
    ScanOk =>
        /\ Result.notes = NotesOf("sapling") \o NotesOf("orchard")
        /\ \A k \in 1..Len(NotesOf("sapling")) :
              /\ NotesOf("sapling")[k].output_index = k - 1
              /\ k <= Len(tx.outputs)
              /\ NotesOf("sapling")[k].commitment = HexEncode(tx.outputs[k])
        /\ \A k \in 1..Len(NotesOf("orchard")) :
              /\ NotesOf("orchard")[k].output_index = k - 1
              /\ k <= Len(tx.actions)
              /\ NotesOf("orchard")[k].commitment = HexEncode(tx.actions[k].cmx)

C7_Witness ==
    /\ ScanOk
    /\ Len(Result.notes) = 2
    /\ Result.notes[1].pool = "sapling"
    /\ Result.notes[1].output_index = 0
    /\ Result.notes[2].pool = "orchard"
    /\ Result.notes[2].output_index = 0

WalletFields ==
    {"seed_phrase", "network", "unified_address", "transparent_address",
     "unified_full_viewing_key"}

\* C8: when generate_wallet(entropy, network) returns a WalletInfo,
\* restore_wallet of its seed_phrase and the same network succeeds with a
\* WalletInfo equal to it in each of the five fields.
C8_PhraseRoundTrip ==
    (/\ generated.called
     /\ generated.outcome.ok
     /\ restored.called
     /\ restored.seed_phrase = generated.outcome.value.seed_phrase
     /\ restored.network = generated.network) =>
        /\ restored.outcome.ok
        /\ DOMAIN restored.outcome.value = WalletFields
        /\ \A f \in WalletFields :
              restored.outcome.value[f] = generated.outcome.value[f]

C8_Witness ==
    /\ generated.called
    /\ generated.outcome.ok
    /\ generated.entropy = [i \in 1..EntropyLen |-> 1]
    /\ restored.called
    /\ restored.seed_phrase = generated.outcome.value.seed_phrase
    /\ restored.network = generated.network
    /\ restored.outcome.ok

\* the words of a phrase, surrounding whitespace trimmed
PhraseWords(phrase) == SplitWhitespace(Trim(phrase), <<>>)

\* word-list and checksum validity of a phrase
ValidPhrase(phrase) ==
    LET w == PhraseWords(phrase)
    IN  /\ Len(w) \in ValidWordCounts
        /\ \A i \in 1..Len(w) : Len(w[i]) = 1 /\ w[i][1] \in {"abandon", "zoo"}
        /\ LET idx == [i \in 1..Len(w) |-> IF w[i][1] = "abandon" THEN 0 ELSE 1]
           IN  idx[Len(w)] = Checksum(SubSeq(idx, 1, Len(w) - 1))

\* C9: restore_wallet of a phrase that, trimmed, fails the word-list or
\* checksum validation returns InvalidSeedPhrase and no WalletInfo, and
\* derive_wallet does not run.
C9_InvalidPhraseRejected ==
    (restored.called /\ ~ValidPhrase(restored.seed_phrase)) =>
        /\ ~restored.outcome.ok
        /\ restored.outcome.error.kind = "InvalidSeedPhrase"
        /\ DOMAIN restored.outcome = {"ok", "error"}
        /\ restored.derive_calls = 0

C9_Witness ==
    /\ restored.called
    /\ Len(PhraseWords(restored.seed_phrase)) \in ValidWordCounts
    /\ \A i \in 1..Len(PhraseWords(restored.seed_phrase)) :
          IsSome(FindWord(PhraseWords(restored.seed_phrase)[i]))
    /\ ~ValidPhrase(restored.seed_phrase)
    /\ restored.outcome.error = [kind |-> "InvalidSeedPhrase", message |-> "InvalidChecksum"]

\* C10: a ScanResult of a key without transparent capability has no
\* transparent output and transparent_received 0; of a key without Sapling
\* capability, no "sapling" note; of a key without Orchard capability, no
\* "orchard" note; whatever the transaction holds.
C10_PoolsGuardedByCapability ==
    ScanOk =>
        /\ ~Grants(scan.viewing_key, "p2pkh") =>
              Result.transparent_outputs = <<>> /\ Result.transparent_received = 0
        /\ ~Grants(scan.viewing_key, "sapling") => NotesOf("sapling") = <<>>
        /\ ~Grants(scan.viewing_key, "orchard") => NotesOf("orchard") = <<>>

C10_Witness ==
    /\ ScanOk
    /\ scan.viewing_key.types = {"unknown"}
    /\ Len(tx.outputs) = 1
    /\ Len(tx.actions) = 1
    /\ Result.notes = <<>>

\* the Orchard actions (by position) that scan_transaction decrypts: a
\* decryption key is taken from a full viewing key only
Decrypted == IF IsUfvk(scan.viewing_key) THEN Decryptable ELSE {}

\* a note that carries nothing but its position, pool and commitment
Undecrypted(n) ==
    /\ n.value = 0
    /\ n.nullifier = None
    /\ n.memo = None
    /\ n.address = None

\* C11: every note that was not decrypted has value 0, its public commitment
\* and no nullifier, memo or address: every "sapling" note, and every
\* "orchard" note whose trial decryption failed or was not attempted; the
\* scan still succeeds and holds one note per output and per action.
C11_UndecryptedNotesEmpty ==
    (scan.called /\ (IsUfvk(scan.viewing_key) \/ IsUivk(scan.viewing_key)
                     \/ IsLegacy(scan.viewing_key))) =>
        /\ scan.outcome.ok
        /\ Grants(scan.viewing_key, "sapling") =>
              /\ Len(NotesOf("sapling")) = Len(tx.outputs)
              /\ \A k \in 1..Len(tx.outputs) :
                    /\ Undecrypted(NotesOf("sapling")[k])
                    /\ NotesOf("sapling")[k].commitment = HexEncode(tx.outputs[k])
        /\ Grants(scan.viewing_key, "orchard") =>
              /\ Len(NotesOf("orchard")) = Len(tx.actions)
              /\ \A k \in (1..Len(tx.actions)) \ Decrypted :
                    /\ Undecrypted(NotesOf("orchard")[k])
                    /\ NotesOf("orchard")[k].commitment = HexEncode(tx.actions[k].cmx)

C11_Witness ==
    /\ ScanOk
    /\ IsUfvk(scan.viewing_key)
    /\ scan.viewing_key.orchard = 1
    /\ Grants(scan.viewing_key, "sapling")
    /\ Len(tx.outputs) = 1
    /\ Len(tx.actions) = 1
    /\ tx.actions[1].to = ToIvk(2, "External")
    /\ tx.actions[1].value = 9
    /\ Len(Result.notes) = 2
    /\ Undecrypted(Result.notes[1])
    /\ Undecrypted(Result.notes[2])

\* the position of the last non-zero byte of m, 0 when every byte is zero
LastNonZero(m) ==
    LET nonZero == {j \in 1..Len(m) : m[j] # 0}
    IN  IF nonZero = {} THEN 0 ELSE CHOOSE j \in nonZero : \A i \in nonZero : i <= j

\* C12: for a decrypted "orchard" note, with the remainder being the memo
\* bytes up to their last non-zero byte (zero bytes before it are kept), the
\* memo is present exactly when the remainder is non-empty and valid UTF-8,
\* and is then the remainder; otherwise it is absent and the scan succeeds.
C12_MemoTrimmed ==
    (scan.called /\ Decrypted # {}) =>
        /\ scan.outcome.ok
        /\ \A k \in Decrypted :
              LET memo_bytes == tx.actions[k].memo
                  remainder == SubSeq(memo_bytes, 1, LastNonZero(memo_bytes))
                  memo == NotesOf("orchard")[k].memo
              IN  /\ IsSome(memo) <=> (remainder # <<>> /\ Utf8Valid(remainder))
                  /\ IsSome(memo) => Unwrap(memo) = remainder

C12_Witness ==
    /\ ScanOk
    /\ Decrypted = {1}
    /\ SubSeq(tx.actions[1].memo, 1, 3) = <<0, 72, 0>>
    /\ LastNonZero(tx.actions[1].memo) = 2
    /\ Result.notes[1].memo = Some(<<0, 72>>)

\* two outcomes of scan_transaction are the same error, or results equal in
\* every field
SameOutcome(a, b) ==
    /\ a.ok = b.ok
    /\ a.ok => a.value = b.value
    /\ ~a.ok => a.error = b.error

\* C13: the outcome of a scan is the outcome of scanning the same transaction
\* with the same key under every other network and height argument, so a key
\* encoded for one network is scanned alike when the other network is passed.
C13_NetworkAndHeightIgnored ==
    scan.called =>
        \A network \in Networks, height \in Heights :
            SameOutcome(scan.outcome,
                        ScanTransaction(tx, scan.viewing_key, network, height))

C13_Witness ==
    /\ ScanOk
    /\ IsUfvk(scan.viewing_key)
    /\ HrpNetwork(scan.viewing_key.hrp) = "TestNetwork"
    /\ scan.network = "MainNetwork"
    /\ scan.height = None
    /\ Decrypted # {}
    /\ ScanTransaction(tx, scan.viewing_key, "TestNetwork", Some(2000000)).ok

====
